---------------------------- MODULE Spec2Model ----------------------------
(* Token authentication and role authorisation middleware of the image   *)
(* service (src/middleware/auth.js): authenticateToken, the JWKS client   *)
(* with its key cache, and the role gates built by requireRole.           *)
EXTENDS Integers, Sequences, FiniteSets, TLC

(* ---------------------------------------------------------------------- *)
(* Bounds of the model                                                    *)
(* ---------------------------------------------------------------------- *)
\* number of requests that can be in progress at the same time
NReq == 2
\* number of key identifiers published by the key-set endpoint
NKeys == 6
\* the clock advances in steps of Tick milliseconds, up to MaxTime steps
Tick == 400000
MaxTime == 2

(* ---------------------------------------------------------------------- *)
(* Configuration of the program                                           *)
(* ---------------------------------------------------------------------- *)
cacheMaxEntries == 5
cacheMaxAge == 600000
jwtOptions ==
    [issuer |-> "https://patientsystem-keycloak.app.cloud.cbh.kth.se/realms/patientsystem",
     algorithms |-> {"RS256"}]

(* ---------------------------------------------------------------------- *)
(* JavaScript values                                                      *)
(* ---------------------------------------------------------------------- *)
Undefined == [t |-> "undefined"]
\* a string value; role names are kept as sequences of character codes so
\* that toLowerCase is computed, header values as sequences of atoms
Str(s) == [t |-> "string", s |-> s]
Arr(a) == [t |-> "array", a |-> a]
Num(n) == [t |-> "number", n |-> n]

Reqs == 1 .. NReq
KnownKids == 1 .. NKeys
UnknownKid == 0

\* String.prototype.toLowerCase on character codes: A-Z (65..90) -> a-z
LowerChar(c) == IF c \in 65 .. 90 THEN c + 32 ELSE c
ToLowerCase(s) == [i \in 1 .. Len(s) |-> LowerChar(s[i])]

Range(s) == {s[i] : i \in 1 .. Len(s)}

\* role names used by the service and by issued tokens
doctor == <<100, 111, 99, 116, 111, 114>>
staff == <<115, 116, 97, 102, 102>>
DOCTOR == <<68, 79, 67, 84, 79, 82>>
Staff == <<83, 116, 97, 102, 102>>
nurse == <<110, 117, 114, 115, 101>>


(* ---------------------------------------------------------------------- *)
(* Tokens and Authorization header values                                 *)
(* ---------------------------------------------------------------------- *)
\* atoms of a header value: the space character, a run of other characters,
\* or a compact JWT (three dot-separated parts, itself free of spaces)
SP == [t |-> "sp"]
Word(w) == [t |-> "word", w |-> w]
Jwt(kid, alg, sig, iss, exp, name, mail, ra) ==
    [t |-> "jwt",
     header |-> [alg |-> alg, kid |-> kid],
     payload |-> [sub |-> Str("u1"), iss |-> iss, exp |-> exp, nbf |-> Undefined,
                  preferred_username |-> name, email |-> mail,
                  realm_access |-> ra],
     sig |-> sig]

\* exp claims (seconds): already past at time 0, passing during the run, far
Exps == <<0, 400, 100000>>
ExpPast == Exps[1]
ExpSoon == Exps[2]
ExpFar == Exps[3]

\* realm_access claims carried by tokens
RealmAccess(roles) == [roles |-> Arr(roles)]
RoleLists == {<<>>, <<doctor>>, <<staff>>, <<doctor, staff>>, <<DOCTOR, Staff>>}

\* a token issued by the identity provider: signed with the private key of
\* its kid, RS256, right issuer, not expired
GoodJwt(kid, ra) ==
    Jwt(kid, "RS256", kid, jwtOptions.issuer, ExpFar, Str("alice"), Str("a@x"), ra)

\* the same token with a not-before claim (seconds)
WithNbf(jwt, nbf) == [jwt EXCEPT !.payload.nbf = Num(nbf)]

\* String.prototype.split(' '): the fields between the spaces
RECURSIVE Split(_)
Split(s) ==
    IF \A i \in 1 .. Len(s) : s[i] # SP
    THEN <<s>>
    ELSE LET i == CHOOSE j \in 1 .. Len(s) :
                      s[j] = SP /\ \A m \in 1 .. j - 1 : s[m] # SP
         IN <<SubSeq(s, 1, i - 1)>> \o Split(SubSeq(s, i + 1, Len(s)))

\* authHeader && authHeader.split(' ')[1]
TokenOf(authHeader) ==
    IF authHeader = Undefined THEN Undefined
    ELSE IF authHeader.s = <<>> THEN Str(<<>>)
    ELSE LET parts == Split(authHeader.s)
         IN IF Len(parts) >= 2 THEN Str(parts[2]) ELSE Undefined

\* JavaScript truthiness of a string-or-undefined value
Truthy(v) == v # Undefined /\ v.s # <<>>

\* jwt.verify's first test: the token string has three parts and decodes
WellFormed(token) == Len(token.s) = 1 /\ token.s[1].t = "jwt"

(* ---------------------------------------------------------------------- *)
(* The key set published by the identity provider                         *)
(* ---------------------------------------------------------------------- *)
\* public key of each published kid; key n verifies signatures made with n
JWKS == [k \in KnownKids |-> k]

FetchOutcomes == {"ok", "unreachable", "malformed", "timeout"}

\* result handed to getKey's callback for one answer of the endpoint
KeyResult(kid, outcome) ==
    IF outcome = "ok" /\ kid \in DOMAIN JWKS
    THEN [err |-> "", key |-> JWKS[kid]]
    ELSE [err |-> IF outcome = "ok" THEN "SigningKeyNotFoundError" ELSE outcome,
          key |-> 0]


(* ---------------------------------------------------------------------- *)
(* jwt.verify with jwtOptions, once getKey has answered                   *)
(* ---------------------------------------------------------------------- *)
VerifyError(msg) == [err |-> msg, decoded |-> Undefined]

\* (variant: no algorithms option, any declared algorithm is accepted)
JwtVerifyAnyAlgorithm(jwt, keyRes, clock) ==
    IF keyRes.err # ""
    THEN VerifyError("error in secret or public key callback")
    ELSE IF jwt.sig # keyRes.key
    THEN VerifyError("invalid signature")
    ELSE IF jwt.payload.nbf # Undefined /\ jwt.payload.nbf.n > clock \div 1000
    THEN VerifyError("jwt not active")
    ELSE IF clock \div 1000 >= jwt.payload.exp
    THEN VerifyError("jwt expired")
    ELSE IF jwt.payload.iss # jwtOptions.issuer
    THEN VerifyError("jwt issuer invalid")
    ELSE [err |-> "", decoded |-> jwt.payload]

\* (variant: no issuer option, the iss claim is not compared)
JwtVerifyAnyIssuer(jwt, keyRes, clock) ==
    IF keyRes.err # ""
    THEN VerifyError("error in secret or public key callback")
    ELSE IF jwt.header.alg \notin jwtOptions.algorithms
    THEN VerifyError("invalid algorithm")
    ELSE IF jwt.sig # keyRes.key
    THEN VerifyError("invalid signature")
    ELSE IF jwt.payload.nbf # Undefined /\ jwt.payload.nbf.n > clock \div 1000
    THEN VerifyError("jwt not active")
    ELSE IF clock \div 1000 >= jwt.payload.exp
    THEN VerifyError("jwt expired")
    ELSE [err |-> "", decoded |-> jwt.payload]

\* (variant: the declared algorithm is tested before the key is looked at)
JwtVerifyAlgorithmFirst(jwt, keyRes, clock) ==
    IF jwt.header.alg \notin jwtOptions.algorithms
    THEN VerifyError("invalid algorithm")
    ELSE IF keyRes.err # ""
    THEN VerifyError("error in secret or public key callback")
    ELSE IF jwt.sig # keyRes.key
    THEN VerifyError("invalid signature")
    ELSE IF jwt.payload.nbf # Undefined /\ jwt.payload.nbf.n > clock \div 1000
    THEN VerifyError("jwt not active")
    ELSE IF clock \div 1000 >= jwt.payload.exp
    THEN VerifyError("jwt expired")
    ELSE IF jwt.payload.iss # jwtOptions.issuer
    THEN VerifyError("jwt issuer invalid")
    ELSE [err |-> "", decoded |-> jwt.payload]

\* the checks jwt.verify makes in its order: key callback error, algorithm
\* white list, signature, nbf and exp against the clock (seconds), issuer
JwtVerify(jwt, keyRes, clock) ==
    IF keyRes.err # ""
    THEN VerifyError("error in secret or public key callback")
    ELSE IF jwt.header.alg \notin jwtOptions.algorithms
    THEN VerifyError("invalid algorithm")
    ELSE IF jwt.sig # keyRes.key
    THEN VerifyError("invalid signature")
    ELSE IF jwt.payload.nbf # Undefined /\ jwt.payload.nbf.n > clock \div 1000
    THEN VerifyError("jwt not active")
    ELSE IF clock \div 1000 >= jwt.payload.exp
    THEN VerifyError("jwt expired")
    ELSE IF jwt.payload.iss # jwtOptions.issuer
    THEN VerifyError("jwt issuer invalid")
    ELSE [err |-> "", decoded |-> jwt.payload]

\* (variant: a token without a role list is given the role staff)
RolesOfDefaultStaff(decoded) ==
    IF decoded.realm_access = Undefined THEN <<staff>>
    ELSE IF decoded.realm_access.roles = Undefined THEN <<staff>>
    ELSE decoded.realm_access.roles.a

\* decoded.realm_access?.roles || []
RolesOf(decoded) ==
    IF decoded.realm_access = Undefined THEN <<>>
    ELSE IF decoded.realm_access.roles = Undefined THEN <<>>
    ELSE decoded.realm_access.roles.a

\* (variant: the roles are lower-cased when the identity is built)
IdentityLowerCased(decoded) ==
    [t |-> "user",
     id |-> decoded.sub,
     username |-> decoded.preferred_username,
     email |-> decoded.email,
     roles |-> [i \in 1 .. Len(RolesOf(decoded)) |-> ToLowerCase(RolesOf(decoded)[i])]]

\* the object assigned to req.user
Identity(decoded) ==
    [t |-> "user",
     id |-> decoded.sub,
     username |-> decoded.preferred_username,
     email |-> decoded.email,
     roles |-> RolesOf(decoded)]

(* ---------------------------------------------------------------------- *)
(* The key cache of the JWKS client (cache: true)                         *)
(* ---------------------------------------------------------------------- *)
\* The client made by jwksClient with cache: true keeps the keys it has
\* fetched, at most cacheMaxEntries of them and each for cacheMaxAge, and
\* keeps one fetch per kid: a lookup for a kid whose fetch is in flight
\* waits for that fetch. The cache is a sequence of entries, most recently
\* used first.
Entry(kid, key, at) == [kid |-> kid, key |-> key, at |-> at]

CachedKids(c) == {c[i].kid : i \in 1 .. Len(c)}
IndexOf(c, kid) == CHOOSE i \in 1 .. Len(c) : c[i].kid = kid
Without(c, kid) == SelectSeq(c, LAMBDA e : e.kid # kid)

\* (variant: no maxAge, an entry never goes stale)
IsStaleNever(e, clock) == FALSE

\* an entry older than cacheMaxAge is stale
IsStale(e, clock) == clock - e.at > cacheMaxAge

\* (variant: caching switched off, no lookup is ever served)
HitNever(c, kid, clock) == FALSE

\* a lookup serves an entry only if it is present and not stale
Hit(c, kid, clock) ==
    kid \in CachedKids(c) /\ ~IsStale(c[IndexOf(c, kid)], clock)

\* the cache after a lookup: a served entry becomes the most recently
\* used, a stale one is dropped
AfterGet(c, kid, clock) ==
    IF kid \notin CachedKids(c) THEN c
    ELSE IF Hit(c, kid, clock) THEN <<c[IndexOf(c, kid)]>> \o Without(c, kid)
    ELSE Without(c, kid)

\* (variant: the entry dropped is the most recently used of the old ones)
TrimNewest(c) ==
    IF Len(c) > cacheMaxEntries THEN <<c[1]>> \o SubSeq(c, 3, Len(c)) ELSE c

\* entries beyond cacheMaxEntries are removed from the least recently used end
Trim(c) == IF Len(c) > cacheMaxEntries THEN SubSeq(c, 1, cacheMaxEntries) ELSE c

\* the cache after storing a fetched key
AfterSet(c, kid, key, clock) == Trim(<<Entry(kid, key, clock)>> \o Without(c, kid))


(* ---------------------------------------------------------------------- *)
(* The gates made at module load                                          *)
(* ---------------------------------------------------------------------- *)
\* role requirements of the exported gates, and one written in upper case
requireDoctor == <<doctor>>
requireDoctorOrStaff == <<doctor, staff>>
Requirements == {requireDoctor, requireDoctorOrStaff, <<nurse, Staff>>}

(* ---------------------------------------------------------------------- *)
(* State                                                                  *)
(* ---------------------------------------------------------------------- *)
VARIABLES
    now,      \* Date.now(), milliseconds
    cache,    \* the JWKS client's key cache, most recently used first
    loading,  \* kids whose key-set fetch is in flight
    req,      \* per request: position in the pipeline, req.headers, req.user,
              \* the response, what was logged, which calls were made, and
              \* the responses sent and calls of next in their order
    requirements  \* the allowedRoles arrays held by the gates made by requireRole

vars == <<now, cache, loading, req, requirements>>

\* a request slot before a request has arrived on it
Idle ==
    [pc |-> "idle", header |-> Undefined, user |-> Undefined,
     status |-> 0, by |-> "none", body |-> "", logged |-> "",
     passed |-> FALSE, fetched |-> FALSE, required |-> Undefined,
     handler |-> FALSE, gate |-> "none", closed |-> FALSE, out |-> <<>>]

Init ==
    /\ now = 0
    /\ cache = <<>>
    /\ loading = {}
    /\ req = [r \in Reqs |-> Idle]
    /\ requirements = Requirements

\* the JWT a request carries, once authenticateToken has accepted its token
JwtOf(rq) == TokenOf(rq.header).s[1]

(* ---------------------------------------------------------------------- *)
(* authenticateToken                                                      *)
(* ---------------------------------------------------------------------- *)
\* what a middleware does to end its part: res.status(..).json(..), or next()
Answered(by) == [by |-> by, kind |-> "response"]
Continued(by) == [by |-> by, kind |-> "next"]

\* (variant: the response is sent without return, and next() is reached)
RespondAndContinue(rq, code, msg) ==
    [rq EXCEPT !.pc = "authed", !.status = code, !.by = "auth", !.body = msg,
               !.passed = TRUE,
               !.out = @ \o <<Answered("authenticateToken"),
                              Continued("authenticateToken")>>]

\* return res.status(code).json({error: msg}) by authenticateToken
Respond(rq, code, msg) ==
    [rq EXCEPT !.pc = "done", !.status = code, !.by = "auth", !.body = msg,
               !.out = Append(@, Answered("authenticateToken"))]

\* (variant: req.user is set from the unverified payload before the error
\* test)
VerifyCallbackAttachFirst(rq, result) ==
    IF result.err # ""
    THEN Respond([rq EXCEPT !.logged = result.err,
                            !.user = IF WellFormed(TokenOf(rq.header))
                                     THEN Identity(TokenOf(rq.header).s[1].payload)
                                     ELSE Undefined],
                 403, "Invalid or expired token.")
    ELSE [rq EXCEPT !.pc = "authed", !.user = Identity(result.decoded),
                    !.passed = TRUE,
                    !.out = Append(@, Continued("authenticateToken"))]

\* (variant: a verification error is answered with 401)
VerifyCallbackUnauthorized(rq, result) ==
    IF result.err # ""
    THEN Respond([rq EXCEPT !.logged = result.err], 401, "Invalid or expired token.")
    ELSE [rq EXCEPT !.pc = "authed", !.user = Identity(result.decoded),
                    !.passed = TRUE,
                    !.out = Append(@, Continued("authenticateToken"))]

\* (variant: the error message of jwt.verify is sent as the body)
VerifyCallbackSendsMessage(rq, result) ==
    IF result.err # ""
    THEN Respond([rq EXCEPT !.logged = result.err], 403, result.err)
    ELSE [rq EXCEPT !.pc = "authed", !.user = Identity(result.decoded),
                    !.passed = TRUE,
                    !.out = Append(@, Continued("authenticateToken"))]

\* the callback given to jwt.verify: an error is logged and answered with
\* 403, otherwise req.user is set and next() is called
VerifyCallback(rq, result) ==
    IF result.err # ""
    THEN Respond([rq EXCEPT !.logged = result.err], 403, "Invalid or expired token.")
    ELSE [rq EXCEPT !.pc = "authed", !.user = Identity(result.decoded),
                    !.passed = TRUE,
                    !.out = Append(@, Continued("authenticateToken"))]

\* A request with Authorization header h arrives and authenticateToken runs
\* up to its response, its call of next, or the start of a key fetch.
\* (Request slots are interchangeable: a new request takes the lowest free one.)
Receive(r, h) ==
    /\ req[r].pc = "idle"
    /\ \A q \in Reqs : q < r => req[q].pc # "idle"
    /\ LET rq == [req[r] EXCEPT !.header = h]
           token == TokenOf(h)
       IN IF ~Truthy(token)
          THEN /\ req' = [req EXCEPT ![r] =
                              Respond(rq, 401, "Access denied. No token provided.")]
               /\ UNCHANGED <<cache, loading>>
          ELSE IF ~WellFormed(token)
          THEN /\ req' = [req EXCEPT ![r] =
                              VerifyCallback(rq, VerifyError("jwt malformed"))]
               /\ UNCHANGED <<cache, loading>>
          ELSE LET jwt == token.s[1]
                   kid == jwt.header.kid
               IN \* getKey: client.getSigningKey(header.kid, ...)
                  /\ cache' = AfterGet(cache, kid, now)
                  /\ IF Hit(cache, kid, now)
                     THEN /\ req' = [req EXCEPT ![r] = VerifyCallback(rq,
                                 JwtVerify(jwt,
                                     [err |-> "", key |-> cache[IndexOf(cache, kid)].key],
                                     now))]
                          /\ UNCHANGED loading
                     ELSE /\ req' = [req EXCEPT ![r] =
                                 [rq EXCEPT !.pc = "resolving",
                                            !.fetched = kid \notin loading]]
                          /\ loading' = loading \cup {kid}
    /\ UNCHANGED <<now, requirements>>

\* (variant: one verification is made per fetch, for the first request
\* waiting, and its result is handed to every request waiting for the kid)
FetchReturnSharesResult(kid, outcome) ==
    /\ kid \in loading
    /\ LET keyRes == KeyResult(kid, outcome)
           waiting == {r \in Reqs : req[r].pc = "resolving"
                                    /\ JwtOf(req[r]).header.kid = kid}
           first == CHOOSE r \in waiting : \A q \in waiting : r <= q
       IN /\ cache' = IF keyRes.err = ""
                      THEN AfterSet(cache, kid, keyRes.key, now)
                      ELSE cache
          /\ req' = [r \in Reqs |->
                        IF r \in waiting
                        THEN VerifyCallback(req[r],
                                 JwtVerify(JwtOf(req[first]), keyRes, now))
                        ELSE req[r]]
    /\ loading' = loading \ {kid}
    /\ UNCHANGED <<now, requirements>>

\* (variant: the outcome of a fetch is stored whether or not it is a key)
FetchReturnStoresError(kid, outcome) ==
    /\ kid \in loading
    /\ LET keyRes == KeyResult(kid, outcome)
       IN /\ cache' = AfterSet(cache, kid, keyRes.key, now)
          /\ req' = [r \in Reqs |->
                        IF req[r].pc = "resolving" /\ JwtOf(req[r]).header.kid = kid
                        THEN VerifyCallback(req[r], JwtVerify(JwtOf(req[r]), keyRes, now))
                        ELSE req[r]]
    /\ loading' = loading \ {kid}
    /\ UNCHANGED <<now, requirements>>

\* (variant: getKey asks the client again after a first error, having
\* logged it)
FetchReturnRetries(kid, outcome) ==
    /\ kid \in loading
    /\ LET keyRes == KeyResult(kid, outcome)
           waiting == {r \in Reqs : req[r].pc = "resolving"
                                    /\ JwtOf(req[r]).header.kid = kid}
       IN IF keyRes.err # "" /\ \E r \in waiting : req[r].logged = ""
          THEN /\ req' = [r \in Reqs |->
                             IF r \in waiting
                             THEN [req[r] EXCEPT !.logged = "Error getting signing key"]
                             ELSE req[r]]
               /\ UNCHANGED <<cache, loading>>
          ELSE /\ cache' = IF keyRes.err = ""
                           THEN AfterSet(cache, kid, keyRes.key, now)
                           ELSE cache
               /\ req' = [r \in Reqs |->
                             IF r \in waiting
                             THEN VerifyCallback(req[r],
                                      JwtVerify(JwtOf(req[r]), keyRes, now))
                             ELSE req[r]]
               /\ loading' = loading \ {kid}
    /\ UNCHANGED <<now, requirements>>

\* The key-set endpoint answers (or the fetch fails) for kid: the key is
\* cached on success, and every request waiting for kid is verified.
FetchReturn(kid, outcome) ==
    /\ kid \in loading
    /\ LET keyRes == KeyResult(kid, outcome)
       IN /\ cache' = IF keyRes.err = ""
                      THEN AfterSet(cache, kid, keyRes.key, now)
                      ELSE cache
          /\ req' = [r \in Reqs |->
                        IF req[r].pc = "resolving" /\ JwtOf(req[r]).header.kid = kid
                        THEN VerifyCallback(req[r], JwtVerify(JwtOf(req[r]), keyRes, now))
                        ELSE req[r]]
    /\ loading' = loading \ {kid}
    /\ UNCHANGED <<now, requirements>>

(* ---------------------------------------------------------------------- *)
(* Role gates                                                             *)
(* ---------------------------------------------------------------------- *)
\* (variant: the roles are compared as they are, case-sensitively)
HasRoleCaseSensitive(user, allowedRoles) ==
    \E i \in 1 .. Len(allowedRoles) : allowedRoles[i] \in Range(user.roles)

\* allowedRoles.some(role => userRoles.includes(role.toLowerCase()))
HasRole(user, allowedRoles) ==
    LET userRoles == [i \in 1 .. Len(user.roles) |-> ToLowerCase(user.roles[i])]
    IN \E i \in 1 .. Len(allowedRoles) :
           ToLowerCase(allowedRoles[i]) \in Range(userRoles)

\* the middleware returned by requireRole(allowedRoles) applied to a request
RoleGate(rq, allowedRoles) ==
    LET g == [rq EXCEPT !.pc = "done", !.required = Arr(allowedRoles),
                        !.gate = "requireRole"]
    IN IF rq.user = Undefined
       THEN [g EXCEPT !.status = 401, !.by = "gate", !.body = "Not authenticated",
                      !.out = Append(@, Answered("requireRole"))]
       ELSE IF ~HasRole(rq.user, allowedRoles)
       THEN [g EXCEPT !.status = 403, !.by = "gate",
                      !.body = "Access denied. Insufficient permissions.",
                      !.out = Append(@, Answered("requireRole"))]
       ELSE [g EXCEPT !.handler = TRUE,
                      !.out = Append(@, Continued("requireRole"))]

\* (variant: the role names are lower-cased in the array itself)
AllowedLowerCasedInPlace(allowedRoles) ==
    [i \in 1 .. Len(allowedRoles) |-> ToLowerCase(allowedRoles[i])]

\* the allowedRoles array of a gate after the gate has run: some, includes
\* and toLowerCase read it and make new values
AllowedAfter(allowedRoles) == allowedRoles

\* next() of authenticateToken reaches the gate mounted on the route
Gate(r, allowedRoles) ==
    /\ req[r].pc = "authed"
    /\ allowedRoles \in requirements
    /\ req' = [req EXCEPT ![r] = RoleGate(req[r], allowedRoles)]
    /\ requirements' = (requirements \ {allowedRoles}) \cup {AllowedAfter(allowedRoles)}
    /\ UNCHANGED <<now, cache, loading>>

\* (variant: an identity without roles is turned away as well)
RequireAuthenticatedWithRole(rq) ==
    LET g == [rq EXCEPT !.pc = "done", !.gate = "requireAuthenticated"]
    IN IF rq.user = Undefined \/ rq.user.roles = <<>>
       THEN [g EXCEPT !.status = 401, !.by = "gate", !.body = "Not authenticated",
                      !.out = Append(@, Answered("requireAuthenticated"))]
       ELSE [g EXCEPT !.handler = TRUE,
                      !.out = Append(@, Continued("requireAuthenticated"))]

\* requireAuthenticated applied to a request
RequireAuthenticated(rq) ==
    LET g == [rq EXCEPT !.pc = "done", !.gate = "requireAuthenticated"]
    IN IF rq.user = Undefined
       THEN [g EXCEPT !.status = 401, !.by = "gate", !.body = "Not authenticated",
                      !.out = Append(@, Answered("requireAuthenticated"))]
       ELSE [g EXCEPT !.handler = TRUE,
                      !.out = Append(@, Continued("requireAuthenticated"))]

\* next() of authenticateToken reaches requireAuthenticated
Authenticated(r) ==
    /\ req[r].pc = "authed"
    /\ req' = [req EXCEPT ![r] = RequireAuthenticated(req[r])]
    /\ UNCHANGED <<now, cache, loading, requirements>>

\* a request with header h arrives on a route that mounts a gate without
\* authenticateToken before it: nothing has set req.user
Unguarded(r, h, allowedRoles) ==
    /\ req[r].pc = "idle"
    /\ \A q \in Reqs : q < r => req[q].pc # "idle"
    /\ allowedRoles \in requirements \cup {<<>>}
    /\ LET rq == [req[r] EXCEPT !.header = h]
       IN IF allowedRoles = <<>>
          THEN /\ req' = [req EXCEPT ![r] = RequireAuthenticated(rq)]
               /\ UNCHANGED requirements
          ELSE /\ req' = [req EXCEPT ![r] = RoleGate(rq, allowedRoles)]
               /\ requirements' =
                      (requirements \ {allowedRoles}) \cup {AllowedAfter(allowedRoles)}
    /\ UNCHANGED <<now, cache, loading>>

(* ---------------------------------------------------------------------- *)
(* Environment                                                            *)
(* ---------------------------------------------------------------------- *)
\* time passes
Advance ==
    /\ now < MaxTime * Tick
    /\ now' = now + Tick
    /\ UNCHANGED <<cache, loading, req, requirements>>

\* the client drops the connection of a request that waits for its key;
\* nothing listens for it, the fetch and the verification go on
Abandon(r) ==
    /\ req[r].pc = "resolving"
    /\ ~req[r].closed
    /\ req' = [req EXCEPT ![r].closed = TRUE]
    /\ UNCHANGED <<now, cache, loading, requirements>>

\* the response has been sent and the request object is gone
Complete(r) ==
    /\ req[r].pc \in {"authed", "done"}
    /\ req' = [req EXCEPT ![r] = Idle]
    /\ UNCHANGED <<now, cache, loading, requirements>>

(* ---------------------------------------------------------------------- *)
(* Requests                                                               *)
(* ---------------------------------------------------------------------- *)
Bearer(jwt) == Str(<<Word("Bearer"), SP, jwt>>)

\* tokens of the pipeline specification: issued tokens for kid 1, a token
\* with an unknown kid, and tokens with one thing wrong each
Jwts ==
    {GoodJwt(1, RealmAccess(l)) : l \in {<<doctor>>, <<staff>>, <<DOCTOR, Staff>>}}
    \cup {GoodJwt(UnknownKid, RealmAccess(<<doctor>>))}
    \cup {Jwt(1, "RS256", sig, jwtOptions.issuer, ExpFar, Str("alice"), Undefined,
              RealmAccess(<<doctor>>)) : sig \in {0, 2}}
    \cup {Jwt(1, "HS256", 1, jwtOptions.issuer, ExpFar, Undefined, Str("a@x"),
              RealmAccess(<<doctor>>))}
    \cup {Jwt(1, "RS256", 1, jwtOptions.issuer, e, Str("alice"), Str("a@x"),
              RealmAccess(<<doctor>>)) : e \in {ExpPast, ExpSoon}}
    \cup {Jwt(1, "RS256", 1, "https://evil.example/realms/x", ExpFar, Str("alice"),
              Str("a@x"), RealmAccess(<<doctor>>))}
    \cup {WithNbf(GoodJwt(1, RealmAccess(<<doctor>>)), ExpSoon)}

\* Authorization headers of the pipeline specification
Headers ==
    {Undefined, Str(<<>>), Str(<<Word("Bearer")>>), Str(<<Word("Bearer"), SP>>),
     Str(<<Word("Bearer"), SP, SP, GoodJwt(1, RealmAccess(<<doctor>>))>>),
     Str(<<Word("Basic"), SP, Word("dXNlcjpwYXNz")>>),
     Str(<<Word("Basic"), SP, GoodJwt(1, RealmAccess(<<doctor>>))>>)}
    \cup {Bearer(j) : j \in Jwts}

\* headers of the roles specification: issued tokens with every kind of
\* realm_access claim, no header, a token signed with another key, and an
\* issued token that carries nothing but sub
RoleHeaders ==
    {Bearer(GoodJwt(1, ra)) : ra \in {Undefined, [roles |-> Undefined]}
                                      \cup {RealmAccess(l) : l \in RoleLists}}
    \cup {Undefined,
          Bearer(Jwt(1, "RS256", 2, jwtOptions.issuer, ExpFar, Str("mallory"),
                     Undefined, RealmAccess(<<doctor>>))),
          Bearer(Jwt(1, "RS256", 1, jwtOptions.issuer, ExpFar, Undefined,
                     Undefined, Undefined))}

\* headers of the cache specification: issued tokens for every kid
CacheHeaders ==
    {Bearer(GoodJwt(k, RealmAccess(<<doctor>>))) : k \in KnownKids \cup {UnknownKid}}

(* ---------------------------------------------------------------------- *)
(* Specifications                                                         *)
(* ---------------------------------------------------------------------- *)
\* the upload pipeline: NReq requests, authenticateToken then requireDoctor
Next ==
    \/ \E r \in Reqs, h \in Headers : Receive(r, h)
    \/ \E k \in KnownKids \cup {UnknownKid}, o \in FetchOutcomes : FetchReturn(k, o)
    \/ \E r \in Reqs : Gate(r, requireDoctor)
    \/ Advance

Spec == Init /\ [][Next]_vars

\* the role gates: NReq requests with issued tokens, authenticateToken then
\* a gate made by requireRole
NextRoles ==
    \/ \E r \in Reqs, h \in RoleHeaders : Receive(r, h)
    \/ \E k \in KnownKids \cup {UnknownKid}, o \in FetchOutcomes : FetchReturn(k, o)
    \/ \E r \in Reqs, a \in Requirements : Gate(r, a)
    \/ \E r \in Reqs : Authenticated(r)

SpecRoles == Init /\ [][NextRoles]_vars

\* the gates as exported: routes that mount authenticateToken before a gate,
\* and routes that mount a gate alone
NextGates ==
    \/ \E r \in Reqs, h \in RoleHeaders : Receive(r, h)
    \/ \E k \in KnownKids \cup {UnknownKid}, o \in FetchOutcomes : FetchReturn(k, o)
    \/ \E r \in Reqs, a \in Requirements : Gate(r, a)
    \/ \E r \in Reqs : Authenticated(r)
    \/ \E r \in Reqs, h \in {Undefined, Bearer(GoodJwt(1, RealmAccess(<<doctor>>)))},
           a \in {<<>>, requireDoctor} : Unguarded(r, h, a)

SpecGates == Init /\ [][NextGates]_vars

\* the key cache under a stream of requests over all kids, two at a time
CacheReqs == Reqs \cap {1, 2}

NextCache ==
    \/ \E r \in CacheReqs, h \in CacheHeaders : Receive(r, h)
    \/ \E k \in KnownKids \cup {UnknownKid}, o \in FetchOutcomes : FetchReturn(k, o)
    \/ \E r \in CacheReqs : Complete(r)

SpecCache == Init /\ [][NextCache]_vars

\* requests that end: the client gives every fetch of the key set a time
\* limit, so each fetch in flight returns, with a key or with an error
LiveHeaders ==
    {Undefined,
     Bearer(GoodJwt(1, RealmAccess(<<doctor>>))),
     Bearer(GoodJwt(2, RealmAccess(<<staff>>))),
     Bearer(GoodJwt(UnknownKid, RealmAccess(<<doctor>>))),
     Bearer(Jwt(1, "RS256", 2, jwtOptions.issuer, ExpFar, Str("mallory"),
                Undefined, RealmAccess(<<doctor>>)))}

NextLive ==
    \/ \E r \in Reqs, h \in LiveHeaders : Receive(r, h)
    \/ \E k \in KnownKids \cup {UnknownKid}, o \in FetchOutcomes : FetchReturn(k, o)
    \/ \E r \in Reqs : Authenticated(r)

SpecLive ==
    /\ Init
    /\ [][NextLive]_vars
    /\ \A k \in KnownKids \cup {UnknownKid} :
          WF_vars(\E o \in FetchOutcomes : FetchReturn(k, o))

\* requests that may be dropped by their client while they wait for a key,
\* one after another on the same slots
NextAbandon ==
    \/ \E r \in Reqs, h \in LiveHeaders : Receive(r, h)
    \/ \E k \in KnownKids \cup {UnknownKid}, o \in FetchOutcomes : FetchReturn(k, o)
    \/ \E r \in Reqs : Abandon(r)
    \/ \E r \in Reqs : Complete(r)

SpecAbandon == Init /\ [][NextAbandon]_vars

(* ---------------------------------------------------------------------- *)
(* Vocabulary of the properties                                           *)
(* ---------------------------------------------------------------------- *)
\* a request has arrived on slot r
Arrived(r) == req[r].pc # "idle"

\* authenticateToken has produced its outcome for r
AuthDone(r) == req[r].pc \in {"authed", "done"}

\* r carries something that authenticateToken takes for a token and that
\* decodes as a JWT
CarriesJwt(rq) == Truthy(TokenOf(rq.header)) /\ WellFormed(TokenOf(rq.header))

\* authenticateToken rejected r
RejectedByAuth(rq) == rq.by = "auth" /\ rq.status \in {401, 403}

\* the step completes authenticateToken for r
AuthFinishes(r) == req[r].pc \in {"idle", "resolving"} /\ req'[r].pc \in {"authed", "done"}

\* the realm roles a token carries
RealmRoles(jwt) ==
    IF jwt.payload.realm_access = Undefined THEN <<>>
    ELSE IF jwt.payload.realm_access.roles = Undefined THEN <<>>
    ELSE jwt.payload.realm_access.roles.a

\* two role names are equal up to the case of their letters
IsUpper(c) == c \in 65 .. 90
IsLower(c) == c \in 97 .. 122
EqIgnoreCase(a, b) ==
    /\ Len(a) = Len(b)
    /\ \A i \in 1 .. Len(a) :
          \/ a[i] = b[i]
          \/ IsUpper(a[i]) /\ b[i] = a[i] + 32
          \/ IsLower(a[i]) /\ b[i] = a[i] - 32

\* some required role is, up to case, one of the given roles
RolesMeet(required, roles) ==
    \E i \in 1 .. Len(required), j \in 1 .. Len(roles) :
        EqIgnoreCase(required[i], roles[j])

\* the token is signed with the published key of its kid
SignedByPublishedKey(jwt) ==
    jwt.header.kid \in DOMAIN JWKS /\ jwt.sig = JWKS[jwt.header.kid]

(* ---------------------------------------------------------------------- *)
(* C1                                                                     *)
(* ---------------------------------------------------------------------- *)
\* C1: a request without an Authorization header is answered 401 by
\* authenticateToken, gets no req.user, and next is never called for it.
C1_NoHeaderIs401 ==
    \A r \in Reqs :
        Arrived(r) /\ req[r].header = Undefined =>
            /\ req[r].pc = "done"
            /\ req[r].status = 401 /\ req[r].by = "auth"
            /\ req[r].user = Undefined
            /\ ~req[r].passed /\ ~req[r].handler

C1_Witness ==
    \E r \in Reqs : req[r].header = Undefined /\ req[r].status = 401

(* ---------------------------------------------------------------------- *)
(* C2                                                                     *)
(* ---------------------------------------------------------------------- *)
\* reasons for which verification fails, at the time of verification
WrongSignature(jwt) ==
    jwt.header.kid \in DOMAIN JWKS /\ jwt.sig # JWKS[jwt.header.kid]
WrongAlgorithm(jwt) == jwt.header.alg # "RS256"
ExpInPast(jwt, clock) == jwt.payload.exp * 1000 < clock
WrongIssuer(jwt) == jwt.payload.iss # jwtOptions.issuer
NotYetActive(jwt, clock) ==
    jwt.payload.nbf # Undefined /\ clock < jwt.payload.nbf.n * 1000

FailsVerification(jwt, clock) ==
    \/ WrongSignature(jwt)
    \/ WrongAlgorithm(jwt)
    \/ ExpInPast(jwt, clock)
    \/ WrongIssuer(jwt)

\* C2: whenever authenticateToken completes for a token whose signature
\* does not match the key of its kid, whose alg is not RS256, whose exp is
\* in the past, or whose iss is not the configured issuer, it answers 403
\* and does not call next.
C2_InvalidTokenIs403 ==
    [][\A r \in Reqs :
          AuthFinishes(r) /\ CarriesJwt(req'[r])
              /\ FailsVerification(JwtOf(req'[r]), now) =>
                  /\ req'[r].status = 403 /\ req'[r].by = "auth"
                  /\ req'[r].pc = "done"
                  /\ ~req'[r].passed /\ ~req'[r].handler]_vars

\* one request rejected for its expiry alone, one for its algorithm alone
C2_Witness ==
    /\ \E r \in Reqs :
          /\ req[r].status = 403 /\ CarriesJwt(req[r])
          /\ ExpInPast(JwtOf(req[r]), now)
          /\ req[r].logged = "jwt expired"
    /\ \E r \in Reqs :
          /\ req[r].status = 403 /\ CarriesJwt(req[r])
          /\ req[r].logged = "invalid algorithm"
          /\ ~WrongSignature(JwtOf(req[r])) /\ ~WrongIssuer(JwtOf(req[r]))

(* ---------------------------------------------------------------------- *)
(* C3                                                                     *)
(* ---------------------------------------------------------------------- *)
\* C3: next has been called by authenticateToken only if req.user is the
\* complete identity of the request's own verified token, and a request
\* rejected by authenticateToken (401 or 403) has no req.user and next was
\* not called for it.
C3_NoPartialSuccess ==
    \A r \in Reqs :
        /\ req[r].passed =>
              /\ CarriesJwt(req[r])
              /\ req[r].user = Identity(JwtOf(req[r]).payload)
              /\ SignedByPublishedKey(JwtOf(req[r]))
              /\ ~WrongAlgorithm(JwtOf(req[r]))
              /\ ~WrongIssuer(JwtOf(req[r]))
              /\ JwtOf(req[r]).payload.exp > 0
              /\ ~NotYetActive(JwtOf(req[r]), now)
              /\ ~RejectedByAuth(req[r])
        /\ RejectedByAuth(req[r]) =>
              /\ req[r].user = Undefined
              /\ ~req[r].passed /\ ~req[r].handler
        /\ req[r].user # Undefined => req[r].passed

C3_Witness ==
    /\ \E r \in Reqs : req[r].passed /\ req[r].user # Undefined
    /\ \E r \in Reqs : RejectedByAuth(req[r]) /\ req[r].status = 403


(* ---------------------------------------------------------------------- *)
(* C4                                                                     *)
(* ---------------------------------------------------------------------- *)
\* the header value has the form "Bearer <token>": the scheme Bearer, one
\* space, and a token without spaces
BearerForm(h) ==
    /\ h # Undefined
    /\ Len(h.s) = 3
    /\ h.s[1] = Word("Bearer") /\ h.s[2] = SP /\ h.s[3] # SP

\* C4: a request whose Authorization header is present but not of the form
\* "Bearer <token>" is answered 401 by authenticateToken, and neither a key
\* resolution nor a verification is attempted for it.
C4_MalformedHeaderIs401 ==
    \A r \in Reqs :
        Arrived(r) /\ req[r].header # Undefined /\ ~BearerForm(req[r].header) =>
            /\ req[r].pc = "done"
            /\ req[r].status = 401 /\ req[r].by = "auth"
            /\ ~req[r].fetched /\ req[r].logged = ""

(* ---------------------------------------------------------------------- *)
(* C5                                                                     *)
(* ---------------------------------------------------------------------- *)
\* the step ends the key fetch for kid without a key
FetchFails(kid) ==
    kid \in loading /\ kid \notin loading' /\ kid \notin CachedKids(cache')

\* C5: a token whose kid is not in the key set never gets past
\* authenticateToken, and when a key fetch ends without a key (unknown kid,
\* endpoint unreachable, malformed data, timeout) every request waiting for
\* it is answered 403, gets no req.user, and next is not called.
C5_UnresolvedKeyIs403 ==
    /\ [](\A r \in Reqs :
            AuthDone(r) /\ CarriesJwt(req[r])
                /\ JwtOf(req[r]).header.kid \notin DOMAIN JWKS =>
                    /\ req[r].status = 403 /\ req[r].by = "auth"
                    /\ req[r].user = Undefined /\ ~req[r].passed)
    /\ [][\A r \in Reqs :
            req[r].pc = "resolving" /\ FetchFails(JwtOf(req[r]).header.kid) =>
                /\ req'[r].pc = "done"
                /\ req'[r].status = 403 /\ req'[r].by = "auth"
                /\ req'[r].user = Undefined /\ ~req'[r].passed]_vars

\* a token with nothing wrong and a published kid, rejected because the
\* fetch failed, and a token with an unknown kid rejected
C5_Witness ==
    /\ \E r \in Reqs :
          /\ req[r].status = 403 /\ CarriesJwt(req[r])
          /\ SignedByPublishedKey(JwtOf(req[r]))
          /\ ~FailsVerification(JwtOf(req[r]), now)
    /\ \E r \in Reqs :
          /\ req[r].status = 403 /\ CarriesJwt(req[r])
          /\ JwtOf(req[r]).header.kid = UnknownKid

(* ---------------------------------------------------------------------- *)
(* C6                                                                     *)
(* ---------------------------------------------------------------------- *)
\* C6: a role gate that ran on a request with an identity called next
\* exactly if some required role equals some role of the identity up to
\* case; otherwise it answered 403 and did not call next.
C6_RoleGate ==
    \A r \in Reqs :
        req[r].required # Undefined /\ req[r].user # Undefined =>
            /\ req[r].handler <=> RolesMeet(req[r].required.a, req[r].user.roles)
            /\ ~req[r].handler => req[r].status = 403 /\ req[r].by = "gate"
            /\ req[r].handler => req[r].status = 0

\* roles {staff} against {doctor} denied; roles in upper case allowed
C6_Witness ==
    /\ \E r \in Reqs :
          /\ req[r].required = Arr(requireDoctor)
          /\ req[r].user # Undefined /\ req[r].user.roles = <<staff>>
          /\ req[r].status = 403
    /\ \E r \in Reqs :
          /\ req[r].required = Arr(requireDoctor)
          /\ req[r].user # Undefined /\ req[r].user.roles = <<DOCTOR, Staff>>
          /\ req[r].handler

(* ---------------------------------------------------------------------- *)
(* C7                                                                     *)
(* ---------------------------------------------------------------------- *)
\* the token is what the claim calls valid for the upload route, at every
\* time from..to
ValidDoctorToken(jwt, from, to) ==
    /\ SignedByPublishedKey(jwt)
    /\ ~WrongAlgorithm(jwt)
    /\ ~WrongIssuer(jwt)
    /\ ~NotYetActive(jwt, from)
    /\ to < jwt.payload.exp * 1000
    /\ RolesMeet(<<doctor>>, RealmRoles(jwt))

\* the pipeline authenticateToken, requireDoctor has ended for r
DoctorRouteEnded(rq) ==
    rq.pc = "done" /\ (rq.by = "auth" \/ rq.required = Arr(requireDoctor))

\* C7 as stated: on the route authenticateToken, requireDoctor the handler
\* is reached exactly for the requests that carry a valid token with the
\* doctor role, and then req.user.roles is the token's realm-role list.
C7_AsStated ==
    \A r \in Reqs :
        DoctorRouteEnded(req[r]) =>
            /\ req[r].handler =>
                  /\ CarriesJwt(req[r])
                  /\ ValidDoctorToken(JwtOf(req[r]), now, 0)
                  /\ req[r].user.roles = RealmRoles(JwtOf(req[r]))
            /\ CarriesJwt(req[r])
                  /\ ValidDoctorToken(JwtOf(req[r]), 0, now) =>
                      req[r].handler

\* the key of the request's kid is at hand when authenticateToken completes:
\* served from the cache or just fetched
KeyResolved(rq) == JwtOf(rq).header.kid \in CachedKids(cache')

\* C7, amended: authenticateToken calls next exactly if the request carries
\* a token whose key is resolved and which is signed by that key with
\* RS256, issued by the configured issuer, not expired and not before its
\* nbf; requireDoctor then reaches the handler exactly if the realm roles contain doctor up to
\* case, and req.user.roles is the token's realm-role list.
C7_Pipeline ==
    /\ [](\A r \in Reqs :
            /\ req[r].required # Undefined => req[r].passed
            /\ req[r].required = Arr(requireDoctor) =>
                  /\ req[r].handler <=>
                        RolesMeet(<<doctor>>, RealmRoles(JwtOf(req[r])))
                  /\ req[r].user.roles = RealmRoles(JwtOf(req[r])))
    /\ [][\A r \in Reqs :
            AuthFinishes(r) =>
                (req'[r].passed <=>
                    /\ CarriesJwt(req'[r])
                    /\ KeyResolved(req'[r])
                    /\ SignedByPublishedKey(JwtOf(req'[r]))
                    /\ ~WrongAlgorithm(JwtOf(req'[r]))
                    /\ ~WrongIssuer(JwtOf(req'[r]))
                    /\ ~NotYetActive(JwtOf(req'[r]), now)
                    /\ now < JwtOf(req'[r]).payload.exp * 1000)]_vars

C7_Witness ==
    /\ \E r \in Reqs :
          /\ req[r].handler /\ req[r].required = Arr(requireDoctor)
          /\ req[r].user.roles = <<DOCTOR, Staff>>
    /\ \E r \in Reqs :
          /\ DoctorRouteEnded(req[r]) /\ req[r].by = "gate"
          /\ req[r].user.roles = <<staff>>

(* ---------------------------------------------------------------------- *)
(* C8                                                                     *)
(* ---------------------------------------------------------------------- *)
LowerCased(roles) == [i \in 1 .. Len(roles) |-> ToLowerCase(roles[i])]

\* C8 as stated: req.user.roles is the lower-cased realm-role list of the
\* token, so no role is stored in mixed or upper case.
C8_AsStated ==
    \A r \in Reqs :
        req[r].user # Undefined =>
            /\ req[r].user.roles = LowerCased(RealmRoles(JwtOf(req[r])))
            /\ \A i \in 1 .. Len(req[r].user.roles) :
                  \A j \in 1 .. Len(req[r].user.roles[i]) :
                      ~IsUpper(req[r].user.roles[i][j])

\* C8, amended: req.user.roles is the realm-role list of the token as
\* issued, case preserved (so each of its elements, lower-cased, is the
\* lower-case form of a realm role); the gates leave it as attached.
C8_RolesAsIssued ==
    \A r \in Reqs :
        req[r].user # Undefined =>
            /\ req[r].user.roles = RealmRoles(JwtOf(req[r]))
            /\ LowerCased(req[r].user.roles) = LowerCased(RealmRoles(JwtOf(req[r])))

C8_Witness ==
    \E r \in Reqs :
        /\ req[r].user # Undefined
        /\ req[r].user.roles = <<DOCTOR, Staff>>
        /\ req[r].required # Undefined


(* ---------------------------------------------------------------------- *)
(* C9                                                                     *)
(* ---------------------------------------------------------------------- *)
\* the authenticateToken calls so far whose token names kid
CallsFor(kid) ==
    {r \in Reqs : Arrived(r) /\ CarriesJwt(req[r]) /\ JwtOf(req[r]).header.kid = kid}

\* the remote fetches of the key set made for kid, and those that failed
Fetches(kid) == Cardinality({r \in CallsFor(kid) : req[r].fetched})
FailedFetches(kid) ==
    Cardinality({r \in CallsFor(kid) :
        /\ req[r].fetched /\ req[r].pc = "done"
        /\ req[r].logged = "error in secret or public key callback"})

\* every call so far was made within cacheMaxAge of the first
WithinWindow == now <= cacheMaxAge

AllKids == KnownKids \cup {UnknownKid}

Inserted == CachedKids(cache') \ CachedKids(cache)

\* C10: the key cache never holds more than cacheMaxEntries entries, nor
\* two for one kid; storing a key in a full cache removes exactly the
\* oldest (least recently used) entry and keeps the others, and storing a
\* key in a cache that is not full removes none.
C10_CacheBounded ==
    /\ [](/\ Len(cache) <= cacheMaxEntries
          /\ Cardinality(CachedKids(cache)) = Len(cache))
    /\ [][\A k \in Inserted :
            /\ cache'[1].kid = k
            /\ IF Len(cache) = cacheMaxEntries
               THEN /\ SubSeq(cache', 2, Len(cache')) = SubSeq(cache, 1, Len(cache) - 1)
                    /\ cache[Len(cache)].kid \notin CachedKids(cache')
                    /\ Len(cache') = cacheMaxEntries
               ELSE SubSeq(cache', 2, Len(cache')) = cache]_vars

\* an authenticated request whose key has since been evicted from the full
\* cache
C10_Witness ==
    /\ Len(cache) = cacheMaxEntries
    /\ \E r \in Reqs :
          /\ req[r].passed
          /\ JwtOf(req[r]).header.kid \notin CachedKids(cache)

(* ---------------------------------------------------------------------- *)
(* C11                                                                    *)
(* ---------------------------------------------------------------------- *)
\* the entry the cache holds for kid was stored more than cacheMaxAge ago
OlderThanMaxAge(c, kid, clock) ==
    kid \in CachedKids(c) /\ clock - c[IndexOf(c, kid)].at > cacheMaxAge

\* the step is the arrival of a request on r
Arrives(r) == req[r].pc = "idle" /\ req'[r].pc # "idle"

\* the step ends the wait of r for its key
KeyArrives(r) == req[r].pc = "resolving" /\ req'[r].pc # "resolving"

\* C11: a request whose kid has a cached entry older than cacheMaxAge is
\* not answered from the cache: the entry is dropped, a new fetch of the key
\* set is started and the request waits for it; a waiting request is let
\* through only with a key stored in the same step, and is answered 403 if
\* the fetch fails, whatever the cache held before.
C11_StaleNeverServed ==
    /\ [][\A r \in Reqs :
            Arrives(r) /\ CarriesJwt(req'[r])
                /\ OlderThanMaxAge(cache, JwtOf(req'[r]).header.kid, now) =>
                    /\ req'[r].pc = "resolving"
                    /\ req'[r].fetched
                    /\ ~req'[r].passed /\ req'[r].status = 0
                    /\ JwtOf(req'[r]).header.kid \in loading'
                    /\ JwtOf(req'[r]).header.kid \notin CachedKids(cache')]_vars
    /\ [][\A r \in Reqs :
            KeyArrives(r) =>
                LET kid == JwtOf(req[r]).header.kid
                IN IF kid \in CachedKids(cache')
                   THEN /\ cache'[IndexOf(cache', kid)].at = now
                        /\ cache'[IndexOf(cache', kid)].key = JWKS[kid]
                        /\ kid \notin CachedKids(cache)
                   ELSE req'[r].status = 403 /\ ~req'[r].passed]_vars

\* two requests with one kid that were both let through, each after a fetch
\* of its own: the key cached for the first had gone stale
C11_Witness ==
    \E r, q \in Reqs :
        /\ r # q
        /\ CarriesJwt(req[r]) /\ CarriesJwt(req[q])
        /\ JwtOf(req[r]).header.kid = JwtOf(req[q]).header.kid
        /\ req[r].fetched /\ req[r].passed
        /\ req[q].fetched /\ req[q].passed
        /\ now > cacheMaxAge

(* ---------------------------------------------------------------------- *)
(* C12                                                                    *)
(* ---------------------------------------------------------------------- *)
\* C12: requireAuthenticated has called next exactly for the requests that
\* have a req.user, whatever its roles (none included); for a request
\* without req.user it has answered 401 and not called next.
C12_RequireAuthenticated ==
    \A r \in Reqs :
        req[r].gate = "requireAuthenticated" =>
            /\ req[r].pc = "done"
            /\ req[r].handler <=> req[r].user # Undefined
            /\ req[r].handler => req[r].status = 0 /\ req[r].by = "none"
            /\ req[r].user = Undefined =>
                  /\ req[r].status = 401 /\ req[r].by = "gate"
                  /\ req[r].body = "Not authenticated"

\* an identity without roles let through, and a request without identity
\* answered 401
C12_Witness ==
    /\ \E r \in Reqs :
          /\ req[r].gate = "requireAuthenticated"
          /\ req[r].user # Undefined /\ req[r].user.roles = <<>>
          /\ req[r].handler
    /\ \E r \in Reqs :
          /\ req[r].gate = "requireAuthenticated"
          /\ req[r].user = Undefined /\ req[r].status = 401

(* ---------------------------------------------------------------------- *)
(* C13                                                                    *)
(* ---------------------------------------------------------------------- *)
\* the step enters a gate for r
GateEntered(r) == req[r].gate = "none" /\ req'[r].gate # "none"

\* C13: on routes that mount authenticateToken before the gate, a gate
\* (made by requireRole, or requireAuthenticated) is entered only for a
\* request that authenticateToken let through with req.user set, so no
\* gate ever answers 401; a request authenticateToken rejected enters no
\* gate.
C13_GateNeverUnauthenticated ==
    /\ [](\A r \in Reqs :
            /\ req[r].gate # "none" =>
                  /\ req[r].user # Undefined /\ req[r].passed
                  /\ ~(req[r].by = "gate" /\ req[r].status = 401)
            /\ RejectedByAuth(req[r]) => req[r].gate = "none" /\ ~req[r].handler)
    /\ [][\A r \in Reqs :
            GateEntered(r) => req[r].pc = "authed" /\ req[r].user # Undefined]_vars

\* a request rejected by authenticateToken that no gate has seen, next to
\* one that authenticateToken let through and requireAuthenticated allowed
C13_Witness ==
    /\ \E r \in Reqs :
          /\ RejectedByAuth(req[r]) /\ req[r].gate = "none" /\ req[r].pc = "done"
    /\ \E r \in Reqs :
          /\ req[r].gate = "requireAuthenticated" /\ req[r].handler

(* ---------------------------------------------------------------------- *)
(* C14                                                                    *)
(* ---------------------------------------------------------------------- *)
\* authenticateToken answered 403 for rq
Forbidden(rq) == rq.by = "auth" /\ rq.status = 403

\* the error messages of jwt.verify for the causes the claim names
CauseMessages ==
    {"invalid signature", "jwt expired", "jwt issuer invalid", "invalid algorithm",
     "error in secret or public key callback"}

\* C14: the body of a 403 of authenticateToken is the same for every two
\* requests, whatever made their verification fail, and is not the error
\* message of the verification, which is only logged.
C14_BodyIndependentOfCause ==
    \A r, q \in Reqs :
        Forbidden(req[r]) /\ Forbidden(req[q]) =>
            /\ req[r].body = req[q].body
            /\ req[r].logged # ""
            /\ req[r].body # req[r].logged
            /\ req[r].body \notin CauseMessages

\* two requests answered 403 for different causes named by the claim
C14_Witness ==
    \E r, q \in Reqs :
        /\ Forbidden(req[r]) /\ Forbidden(req[q])
        /\ req[r].logged \in CauseMessages /\ req[q].logged \in CauseMessages
        /\ req[r].logged # req[q].logged

KeyFails(r) ==
    KeyArrives(r) /\ req'[r].logged = "error in secret or public key callback"

\* the step stores an entry for kid in front of the entries c held, and
\* removes at most the last of them
StoredInFront(c, d, kid) ==
    /\ Len(d) >= 1 /\ d[1].kid = kid
    /\ kid \notin CachedKids(c)
    /\ \/ SubSeq(d, 2, Len(d)) = c
       \/ Len(c) = cacheMaxEntries /\ SubSeq(d, 2, Len(d)) = SubSeq(c, 1, Len(c) - 1)

\* C16 as stated: when the key resolution of a request ends and the fetch
\* failed or the request was abandoned mid-flight, the cache is exactly
\* what it was and holds no entry for the kid.
C16_AsStated ==
    [][\A r \in Reqs :
          KeyArrives(r) /\ (KeyFails(r) \/ req[r].closed) =>
              /\ cache' = cache
              /\ JwtOf(req[r]).header.kid \notin CachedKids(cache')]_vars

\* C16, amended: a fetch that ends in an error (endpoint unreachable,
\* malformed data, unknown kid, timeout) leaves the cache exactly as it was,
\* without an entry for the kid, whether or not a waiting request was
\* abandoned; the kid is no longer being fetched, so the next request with
\* it starts a new fetch. Abandoning a request does not end its fetch: the
\* step itself changes nothing in the cache, and a fetch that then returns
\* a key stores it as for any other request.
C16_FailedFetchLeavesCache ==
    /\ [](\A k \in loading : k \notin CachedKids(cache))
    /\ [][\A r \in Reqs :
            LET kid == JwtOf(req[r]).header.kid
            IN /\ KeyFails(r) =>
                     /\ cache' = cache
                     /\ kid \notin CachedKids(cache')
                     /\ kid \notin loading'
               /\ KeyArrives(r) /\ ~KeyFails(r) => StoredInFront(cache, cache', kid)
               /\ req[r].pc = "resolving" /\ ~req[r].closed /\ req'[r].closed =>
                     /\ cache' = cache /\ loading' = loading
                     /\ req'[r].pc = "resolving"]_vars
    /\ [][\A r \in Reqs :
            Arrives(r) /\ CarriesJwt(req'[r])
                /\ JwtOf(req'[r]).header.kid \notin CachedKids(cache)
                /\ JwtOf(req'[r]).header.kid \notin loading =>
                    /\ req'[r].pc = "resolving" /\ req'[r].fetched
                    /\ cache' = cache]_vars

\* an abandoned request whose fetch failed, and a later request with the
\* same kid that fetched again and was let through, next to an entry that
\* was in the cache before both
C16_Witness ==
    \E r, q \in Reqs :
        /\ req[r].closed /\ req[r].fetched /\ req[r].status = 403
        /\ req[r].logged = "error in secret or public key callback"
        /\ req[q].fetched /\ req[q].passed
        /\ JwtOf(req[q]).header.kid = JwtOf(req[r]).header.kid
        /\ Len(cache) = 2 /\ cache[1].kid = JwtOf(req[q]).header.kid

(* ---------------------------------------------------------------------- *)
(* C17                                                                    *)
(* ---------------------------------------------------------------------- *)
\* what is logged when the signature step, and when the claims step, fails
SignatureMessages == {"invalid algorithm", "invalid signature"}
ClaimsMessages == {"jwt not active", "jwt expired", "jwt issuer invalid"}

\* C17: for each request the steps run in the order extract, resolve key,
\* verify signature, validate claims, build identity, authorize, each only
\* after the one before succeeded: without a token no key is looked up or
\* fetched; the signature is judged only with the key resolved; the claims
\* are judged only for a token whose algorithm and signature were accepted;
\* req.user is set only in the step in which all of that succeeded; and
\* the gate runs only afterwards, on a request with req.user.
C17_StepOrder ==
    /\ [](\A r \in Reqs :
            /\ Arrived(r) /\ ~Truthy(TokenOf(req[r].header)) =>
                  /\ ~req[r].fetched /\ req[r].pc = "done"
                  /\ req[r].logged = "" /\ req[r].status = 401
            /\ Arrived(r) /\ Truthy(TokenOf(req[r].header)) /\ ~CarriesJwt(req[r]) =>
                  ~req[r].fetched /\ req[r].logged = "jwt malformed"
            /\ req[r].pc = "resolving" =>
                  /\ req[r].user = Undefined /\ req[r].logged = ""
                  /\ req[r].gate = "none" /\ req[r].status = 0
            /\ req[r].logged \in ClaimsMessages =>
                  /\ SignedByPublishedKey(JwtOf(req[r]))
                  /\ ~WrongAlgorithm(JwtOf(req[r]))
            /\ req[r].logged # "" => req[r].user = Undefined /\ req[r].gate = "none"
            /\ req[r].gate # "none" => req[r].user # Undefined /\ req[r].passed)
    /\ [][\A r \in Reqs :
            /\ Arrives(r) /\ ~CarriesJwt(req'[r]) =>
                  cache' = cache /\ loading' = loading
            /\ AuthFinishes(r)
                  /\ req'[r].logged \in SignatureMessages \cup ClaimsMessages =>
                      KeyResolved(req'[r])
            /\ req[r].user = Undefined /\ req'[r].user # Undefined =>
                  /\ AuthFinishes(r) /\ req'[r].gate = "none"
                  /\ KeyResolved(req'[r])
                  /\ SignedByPublishedKey(JwtOf(req'[r]))
                  /\ ~WrongAlgorithm(JwtOf(req'[r]))
                  /\ ~WrongIssuer(JwtOf(req'[r]))
                  /\ ~NotYetActive(JwtOf(req'[r]), now)
                  /\ now < JwtOf(req'[r]).payload.exp * 1000
            /\ GateEntered(r) =>
                  /\ req[r].pc = "authed" /\ req[r].user # Undefined
                  /\ req'[r].user = req[r].user]_vars

\* a request that went through every step up to the handler, next to one
\* that was stopped at the claims with its key resolved and signature right
C17_Witness ==
    /\ \E r \in Reqs :
          /\ req[r].fetched /\ req[r].user # Undefined
          /\ req[r].gate = "requireRole" /\ req[r].handler
    /\ \E r \in Reqs :
          /\ req[r].logged \in ClaimsMessages
          /\ req[r].pc = "done" /\ req[r].status = 403

(* ---------------------------------------------------------------------- *)
(* C18                                                                    *)
(* ---------------------------------------------------------------------- *)
\* the token carries no realm-role list
NoRoleList(jwt) ==
    \/ jwt.payload.realm_access = Undefined
    \/ jwt.payload.realm_access.roles = Undefined

\* C18: the identity of a verified token has id = sub, username =
\* preferred_username and email = email of the token (absent ones stay
\* absent); for a token without realm_access or without realm_access.roles
\* its roles are empty, a gate made by requireRole answers 403 and does
\* not call next, and requireAuthenticated calls next.
C18_IdentityFields ==
    \A r \in Reqs :
        /\ req[r].passed => req[r].user # Undefined
        /\ req[r].user # Undefined =>
              /\ req[r].user.id = JwtOf(req[r]).payload.sub
              /\ req[r].user.username = JwtOf(req[r]).payload.preferred_username
              /\ req[r].user.email = JwtOf(req[r]).payload.email
              /\ DOMAIN req[r].user = {"t", "id", "username", "email", "roles"}
              /\ NoRoleList(JwtOf(req[r])) =>
                    /\ req[r].user.roles = <<>>
                    /\ req[r].gate = "requireRole" =>
                          /\ req[r].status = 403 /\ req[r].by = "gate"
                          /\ ~req[r].handler
                    /\ req[r].gate = "requireAuthenticated" =>
                          req[r].handler /\ req[r].status = 0

\* a token without realm_access denied by a role gate, next to a token
\* without realm_access.roles allowed by requireAuthenticated
C18_Witness ==
    /\ \E r \in Reqs :
          /\ req[r].user # Undefined
          /\ JwtOf(req[r]).payload.realm_access = Undefined
          /\ req[r].user.username = Undefined
          /\ req[r].gate = "requireRole" /\ req[r].status = 403
    /\ \E r \in Reqs :
          /\ req[r].user # Undefined
          /\ JwtOf(req[r]).payload.realm_access # Undefined
          /\ NoRoleList(JwtOf(req[r]))
          /\ req[r].user.username = Str("alice")
          /\ req[r].gate = "requireAuthenticated" /\ req[r].handler

(* ---------------------------------------------------------------------- *)
(* C19                                                                    *)
(* ---------------------------------------------------------------------- *)
\* C19: req.user is set at most once for a request, by authenticateToken;
\* no later step alters its id, username, email or roles, in particular a
\* gate made by requireRole and requireAuthenticated leave it as it was
\* whether they allow or deny; and the role requirement of every gate
\* stays what it was made with, however often the gates run.
C19_IdentityReadOnly ==
    /\ [](requirements = Requirements)
    /\ [][\A r \in Reqs :
            /\ GateEntered(r) => req'[r].user = req[r].user
            /\ req[r].user # Undefined => req'[r].user = req[r].user
            /\ req'[r].user # req[r].user =>
                  AuthFinishes(r) /\ req[r].user = Undefined]_vars
    /\ [][requirements' = requirements]_vars

\* the gate requiring nurse or Staff has run twice, allowing an identity
\* with roles in upper case and denying another
C19_Witness ==
    \E r, q \in Reqs :
        /\ req[r].required = Arr(<<nurse, Staff>>) /\ req[r].gate = "requireRole"
        /\ req[r].handler /\ req[r].user.roles = <<DOCTOR, Staff>>
        /\ req[q].required = Arr(<<nurse, Staff>>) /\ req[q].gate = "requireRole"
        /\ req[q].status = 403 /\ req[q].user # Undefined
        /\ req[q].user.roles = <<doctor>>

(* ---------------------------------------------------------------------- *)
(* C20                                                                    *)
(* ---------------------------------------------------------------------- *)
Middlewares == {"authenticateToken", "requireRole", "requireAuthenticated"}

\* the responses sent and calls of next made by middleware m for rq
OutcomesBy(rq, m) == SelectSeq(rq.out, LAMBDA o : o.by = m)
Responses(rq) == SelectSeq(rq.out, LAMBDA o : o.kind = "response")

\* C20: whatever the interleaving of the requests, each run of
\* authenticateToken, of a gate made by requireRole and of
\* requireAuthenticated ends with one response or one call of next, never
\* with both nor with two of either (a run still waiting for its key has
\* produced neither); a request gets at most one response, after which
\* nothing more happens for it; and the req.user of a request is the
\* identity built from the token of that same request.
C20_OneOutcomeOwnIdentity ==
    /\ [](\A r \in Reqs :
            /\ \A m \in Middlewares : Len(OutcomesBy(req[r], m)) <= 1
            /\ req[r].pc = "resolving" => req[r].out = <<>>
            /\ req[r].passed \/ req[r].by = "auth" =>
                  Len(OutcomesBy(req[r], "authenticateToken")) = 1
            /\ req[r].gate # "none" => Len(OutcomesBy(req[r], req[r].gate)) = 1
            /\ Len(Responses(req[r])) <= 1
            /\ Len(Responses(req[r])) = 1 =>
                  req[r].out[Len(req[r].out)].kind = "response"
            /\ (req[r].status # 0) <=> (Len(Responses(req[r])) = 1)
            /\ req[r].user # Undefined =>
                  /\ CarriesJwt(req[r])
                  /\ req[r].user = Identity(JwtOf(req[r]).payload))
    /\ [][\A r \in Reqs :
            \/ req'[r].out = req[r].out
            \/ /\ Len(req'[r].out) = Len(req[r].out) + 1
               /\ SubSeq(req'[r].out, 1, Len(req[r].out)) = req[r].out]_vars

\* two requests with different tokens of one kid, the second arrived while
\* the key was being fetched for the first; both were verified when the
\* fetch returned, each has its own identity and went through its gate
C20_Witness ==
    \E r, q \in Reqs :
        /\ req[r].fetched /\ ~req[q].fetched
        /\ req[r].passed /\ req[q].passed
        /\ JwtOf(req[r]).header.kid = JwtOf(req[q]).header.kid
        /\ req[r].user # req[q].user
        /\ req[r].gate = "requireRole" /\ req[q].gate = "requireAuthenticated"
        /\ Len(req[r].out) = 2 /\ Len(req[q].out) = 2
        /\ req[r].status = 403 /\ req[q].handler

=============================================================================
